---- MODULE Spec2Model ----
(***************************************************************************)
(* NavbarDropdown (yew_styles, navbar_dropdown_container.rs): a component  *)
(* with one boolean of local state (show), its props, and the markup that  *)
(* the framework keeps on screen.  The markup is a tree of element nodes;  *)
(* pointer events are dispatched through the listeners that view attached  *)
(* to the markup, the resulting Msg goes through update, and the framework *)
(* renders again when update / change return true (ShouldRender).          *)
(***************************************************************************)
EXTENDS Integers, Sequences, FiniteSets, TLC

\* ------------------------------------------------------------------------
\* Bounds and input sets
\* ------------------------------------------------------------------------

\* longest children collection that is enumerated
MaxChildren == 2

\* an element node of the markup: tag, class list, id, listeners, child nodes
Elem(tag, class, id, on, kids) ==
    [tag |-> tag, class |-> class, id |-> id, on |-> on, kids |-> kids]

\* Html values handed in as main_content (the test mounts <div id="test">)
MainContents == { Elem("div", <<>>, "test", {}, <<>>),
                  Elem("span", <<>>, "menu", {}, <<>>) }

\* Html values handed in as children (the test mounts <div id="item">)
Items == { Elem("div", <<>>, "item", {}, <<>>),
           Elem("li", <<>>, "item2", {}, <<>>) }

\* class_name values: the default, the one the test mounts, and one that
\* coincides with the class view adds for the active flag
ClassNames == { "", "class-test", "active" }

\* the id the test mounts the component with
Ids == { "id-test" }

SeqsUpTo(S, n) == UNION { [1..k -> S] : k \in 0..n }

\* struct Props
Props == [ main_content : MainContents,
           class_name   : ClassNames,
           active       : BOOLEAN,
           id           : Ids,
           children     : SeqsUpTo(Items, MaxChildren) ]

\* enum Msg
Msg == { "ShowDropdown", "HideDropdown" }

VARIABLES
    props,      \* NavbarDropdown.props
    show,       \* NavbarDropdown.show
    rendered,   \* the markup on screen: the result of the last render
    lastOp,     \* history: the operation processed last, and what it saw
    lastMsg,    \* history: the Msg that update processed last ("" if none yet)
    twin,       \* a second instance (props, show, rendered)
    sched       \* history: the instance served last, each instance's last Msg

vars == <<props, show, rendered, lastOp, lastMsg, twin, sched>>

\* the component object (the link field is a constant handle and is left out)
Self == [props |-> props, show |-> show]

\* ------------------------------------------------------------------------
\* The component's code
\* ------------------------------------------------------------------------

create_shown(p) == [props |-> p, show |-> TRUE]

\* fn create
create(p) == [props |-> p, show |-> FALSE]

update_swapped(self, msg) ==
    [self |-> CASE msg = "ShowDropdown" -> [self EXCEPT !.show = FALSE]
                [] msg = "HideDropdown" -> [self EXCEPT !.show = TRUE],
     ret  |-> TRUE]

update_toggle(self, msg) ==
    [self |-> CASE msg = "ShowDropdown" -> [self EXCEPT !.show = TRUE]
                [] msg = "HideDropdown" -> [self EXCEPT !.show = ~self.show],
     ret  |-> TRUE]

update_sticky(self, msg) ==
    [self |-> CASE msg = "ShowDropdown" -> [self EXCEPT !.show = TRUE]
                [] msg = "HideDropdown" -> self,
     ret  |-> TRUE]

update_no_render(self, msg) ==
    [self |-> CASE msg = "ShowDropdown" -> [self EXCEPT !.show = TRUE]
                [] msg = "HideDropdown" -> [self EXCEPT !.show = FALSE],
     ret  |-> (msg = "ShowDropdown")]

\* fn update: the new component and the ShouldRender it returns
update(self, msg) ==
    [self |-> CASE msg = "ShowDropdown" -> [self EXCEPT !.show = TRUE]
                [] msg = "HideDropdown" -> [self EXCEPT !.show = FALSE],
     ret  |-> TRUE]

change_resets_show(self, p) ==
    IF self.props # p
    THEN [self |-> create(p), ret |-> TRUE]
    ELSE [self |-> self, ret |-> FALSE]

change_stale(self, p) ==
    IF self.props # p
    THEN [self |-> [self EXCEPT !.props = p], ret |-> FALSE]
    ELSE [self |-> self, ret |-> FALSE]

change_ignores_active(self, p) ==
    IF [self.props EXCEPT !.active = p.active] # p
    THEN [self |-> [self EXCEPT !.props = p], ret |-> TRUE]
    ELSE [self |-> self, ret |-> FALSE]

\* fn change: the new component and the ShouldRender it returns
change(self, p) ==
    IF self.props # p
    THEN [self |-> [self EXCEPT !.props = p], ret |-> TRUE]
    ELSE [self |-> self, ret |-> FALSE]

get_items_always(sh, children) ==
    << Elem("ul", <<>>, "", {}, children) >>

get_items_reversed(sh, children) ==
    IF sh
    THEN << Elem("ul", <<>>, "", {},
                 [i \in DOMAIN children |-> children[Len(children) + 1 - i]]) >>
    ELSE << >>

\* fn get_items: the nodes it contributes (html!{} contributes none)
get_items(sh, children) ==
    IF sh
    THEN << Elem("ul", <<>>, "", {}, children) >>
    ELSE << >>

view_active_gated(self) ==
    Elem("div",
         << "navbar-dropdown",
            IF self.props.active THEN "active" ELSE "",
            self.props.class_name >>,
         self.props.id,
         { <<"mouseover", "ShowDropdown">>,
           <<"mouseleave", "HideDropdown">>,
           <<"click", "HideDropdown">> },
         << Elem("div", <<"main-content">>, "", {}, <<self.props.main_content>>) >>
            \o get_items(self.show /\ self.props.active, self.props.children))

view_active_inverted(self) ==
    Elem("div",
         << "navbar-dropdown",
            IF self.props.active THEN "" ELSE "active",
            self.props.class_name >>,
         self.props.id,
         { <<"mouseover", "ShowDropdown">>,
           <<"mouseleave", "HideDropdown">>,
           <<"click", "HideDropdown">> },
         << Elem("div", <<"main-content">>, "", {}, <<self.props.main_content>>) >>
            \o get_items(self.show, self.props.children))

\* fn view
view(self) ==
    Elem("div",
         << "navbar-dropdown",
            IF self.props.active THEN "active" ELSE "",
            self.props.class_name >>,
         self.props.id,
         { <<"mouseover", "ShowDropdown">>,
           <<"mouseleave", "HideDropdown">>,
           <<"click", "HideDropdown">> },
         << Elem("div", <<"main-content">>, "", {}, <<self.props.main_content>>) >>
            \o get_items(self.show, self.props.children))

\* ------------------------------------------------------------------------
\* The framework around the component: mounting, dispatch, re-rendering
\* ------------------------------------------------------------------------

\* mount_with_props: create, then the first view
Mount(p) ==
    LET c == create(p)
    IN  [props |-> c.props, show |-> c.show, rendered |-> view(c)]

\* one message through update; a render follows iff update returned true
Process(c, msg) ==
    LET r == update([props |-> c.props, show |-> c.show], msg)
    IN  [props    |-> r.self.props,
         show     |-> r.self.show,
         rendered |-> IF r.ret THEN view(r.self) ELSE c.rendered,
         ret      |-> r.ret]

\* new props through change; a render follows iff change returned true
Reprops(c, p) ==
    LET r == change([props |-> c.props, show |-> c.show], p)
    IN  [props    |-> r.self.props,
         show     |-> r.self.show,
         rendered |-> IF r.ret THEN view(r.self) ELSE c.rendered,
         ret      |-> r.ret]

\* the nodes of the markup an event can target, as paths from the root
Paths(html) ==
    { << >> }
      \cup { <<i>> : i \in DOMAIN html.kids }
      \cup UNION { { <<i, j>> : j \in DOMAIN html.kids[i].kids } : i \in DOMAIN html.kids }

\* the messages the root's listeners produce for an event; mouseover and
\* click bubble to the root from every node below it
Listeners(html, ev) == { m \in Msg : <<ev, m>> \in html.on }

\* ------------------------------------------------------------------------
\* Initial state and actions
\* ------------------------------------------------------------------------

\* the component mounted with props p
Mounted(p) ==
    LET c == Mount(p)
    IN  /\ props = c.props
        /\ show = c.show
        /\ rendered = c.rendered
        /\ lastOp = [op |-> "create", ev |-> "", target |-> << >>, msg |-> "",
                     ret |-> TRUE, show |-> FALSE,
                     main |-> p.main_content, differ |-> FALSE]
        /\ lastMsg = ""
        /\ sched = [inst |-> 1, msgs |-> <<"", "">>]

\* the second instance before it is mounted
Unmounted == [props |-> << >>, show |-> FALSE, rendered |-> << >>]

Init == \E p \in Props : Mounted(p) /\ twin = Unmounted

\* both instances mounted, with the same props except for active
InitPair ==
    \E p \in Props, b \in BOOLEAN :
        Mounted(p) /\ twin = Mount([p EXCEPT !.active = b])

\* a pointer event ev on the node at path of the markup on screen
Event(ev, path) ==
    /\ path \in Paths(rendered)
    /\ \E msg \in Listeners(rendered, ev) :
         LET c == Process([props |-> props, show |-> show, rendered |-> rendered], msg)
         IN  /\ props' = c.props
             /\ show' = c.show
             /\ rendered' = c.rendered
             /\ lastOp' = [op |-> "update", ev |-> ev, target |-> path, msg |-> msg,
                           ret |-> c.ret, show |-> show,
                           main |-> props.main_content, differ |-> FALSE]
             /\ lastMsg' = msg
             /\ UNCHANGED sched

\* the parent hands new props to the component
NewProps(p) ==
    LET c == Reprops([props |-> props, show |-> show, rendered |-> rendered], p)
    IN  /\ props' = c.props
        /\ show' = c.show
        /\ rendered' = c.rendered
        /\ lastOp' = [op |-> "change", ev |-> "", target |-> << >>, msg |-> "",
                      ret |-> c.ret, show |-> show,
                      main |-> props.main_content, differ |-> (props # p)]
        /\ UNCHANGED <<lastMsg, sched>>

\* the same pointer event on the second instance
TwinEvent(ev) ==
    \E msg \in Listeners(twin.rendered, ev) :
        twin' = [x \in {"props", "show", "rendered"} |-> Process(twin, msg)[x]]

\* the same props on the second instance, except for its own active flag
TwinProps(p, b) ==
    twin' = [x \in {"props", "show", "rendered"} |->
                Reprops(twin, [p EXCEPT !.active = b])[x]]

MouseOver == (\E path \in Paths(rendered) : Event("mouseover", path)) /\ UNCHANGED twin

MouseLeave == Event("mouseleave", << >>) /\ UNCHANGED twin

Click == (\E path \in Paths(rendered) : Event("click", path)) /\ UNCHANGED twin

Change == (\E p \in Props : NewProps(p)) /\ UNCHANGED twin

Next == MouseOver \/ MouseLeave \/ Click \/ Change

Spec == Init /\ [][Next]_vars

\* two instances that receive the same events and differ only in active
PairMouseOver ==
    (\E path \in Paths(rendered) : Event("mouseover", path)) /\ TwinEvent("mouseover")

PairMouseLeave == Event("mouseleave", << >>) /\ TwinEvent("mouseleave")

PairClick == (\E path \in Paths(rendered) : Event("click", path)) /\ TwinEvent("click")

PairChange == \E p \in Props, b \in BOOLEAN : NewProps(p) /\ TwinProps(p, b)

NextPair == PairMouseOver \/ PairMouseLeave \/ PairClick \/ PairChange

SpecPair == InitPair /\ [][NextPair]_vars

\* two instances side by side, each receiving its own events and props
\* (the props are drawn from the shape the test mounts: one child, not
\* active, a custom class)
TwoProps ==
    { p \in Props : p.class_name = "class-test" /\ ~p.active /\ Len(p.children) = 1 }

\* the two component instances
Instances == << [props |-> props, show |-> show, rendered |-> rendered], twin >>

\* what an instance consists of
Component(c) == [x \in {"props", "show", "rendered"} |-> c[x]]

DeliverMsg_shared(insts, i, msg) ==
    [j \in DOMAIN insts |-> Component(Process(insts[j], msg))]

\* update runs on the instance the event was dispatched to (&mut self)
DeliverMsg(insts, i, msg) ==
    [insts EXCEPT ![i] = Component(Process(insts[i], msg))]

\* change runs on the instance the props were handed to (&mut self)
DeliverProps(insts, i, p) ==
    [insts EXCEPT ![i] = Component(Reprops(insts[i], p))]

\* the two instances become insts
Become(insts) ==
    /\ props' = insts[1].props
    /\ show' = insts[1].show
    /\ rendered' = insts[1].rendered
    /\ twin' = insts[2]

InitTwo ==
    \E p \in TwoProps, q \in TwoProps : Mounted(p) /\ twin = Mount(q)

\* a pointer event ev on the node at path of instance i's markup
TwoEvent(i, ev, path) ==
    /\ path \in Paths(Instances[i].rendered)
    /\ \E msg \in Listeners(Instances[i].rendered, ev) :
         /\ Become(DeliverMsg(Instances, i, msg))
         /\ lastOp' = [op |-> "update", ev |-> ev, target |-> path, msg |-> msg,
                       ret |-> Process(Instances[i], msg).ret,
                       show |-> Instances[i].show,
                       main |-> Instances[i].props.main_content, differ |-> FALSE]
         /\ lastMsg' = IF i = 1 THEN msg ELSE lastMsg
         /\ sched' = [inst |-> i, msgs |-> [sched.msgs EXCEPT ![i] = msg]]

TwoMouseOver ==
    \E i \in {1, 2} : \E path \in Paths(Instances[i].rendered) :
        TwoEvent(i, "mouseover", path)

TwoMouseLeave == \E i \in {1, 2} : TwoEvent(i, "mouseleave", << >>)

TwoClick ==
    \E i \in {1, 2} : \E path \in Paths(Instances[i].rendered) :
        TwoEvent(i, "click", path)

TwoChange ==
    \E i \in {1, 2}, p \in TwoProps :
        /\ Become(DeliverProps(Instances, i, p))
        /\ lastOp' = [op |-> "change", ev |-> "", target |-> << >>, msg |-> "",
                      ret |-> Reprops(Instances[i], p).ret,
                      show |-> Instances[i].show,
                      main |-> Instances[i].props.main_content,
                      differ |-> (Instances[i].props # p)]
        /\ sched' = [sched EXCEPT !.inst = i]
        /\ UNCHANGED lastMsg

NextTwo == TwoMouseOver \/ TwoMouseLeave \/ TwoClick \/ TwoChange

SpecTwo == InitTwo /\ [][NextTwo]_vars

\* ------------------------------------------------------------------------
\* Observations on markup
\* ------------------------------------------------------------------------

\* every node of a markup tree
RECURSIVE Nodes(_)
Nodes(html) == {html} \cup UNION { Nodes(html.kids[i]) : i \in DOMAIN html.kids }

\* the positions of the list containers among the root's child nodes
ListContainers(html) == { i \in DOMAIN html.kids : html.kids[i].tag = "ul" }

\* a list container holding exactly the children is in the markup
RendersItems(html, children) ==
    \E i \in ListContainers(html) : html.kids[i].kids = children

\* neither a list container nor any of the children is in the markup
RendersNoItem(html, children) ==
    /\ ListContainers(html) = {}
    /\ \A j \in DOMAIN children : children[j] \notin Nodes(html)

\* the main-content element of the markup holds m
RendersHeader(html, m) ==
    \E i \in DOMAIN html.kids :
        /\ html.kids[i].class = <<"main-content">>
        /\ html.kids[i].kids = <<m>>

\* the class names an element carries (an empty string names no class)
Classes(html) == { html.class[i] : i \in DOMAIN html.class } \ { "" }

\* the markup with the root's class list reduced to its classes other than
\* "active"
WithoutActive(html) == [html EXCEPT !.class = Classes(html) \ { "active" }]

\* ------------------------------------------------------------------------
\* Properties
\* ------------------------------------------------------------------------

\* C1: right after create, for every props value, show is false and the
\* first view renders the main content but no list container and no child.
InitiallyHidden ==
    lastOp.op = "create" =>
        /\ show = FALSE
        /\ RendersHeader(rendered, props.main_content)
        /\ RendersNoItem(rendered, props.children)

InitiallyHiddenWitness ==
    /\ lastOp.op = "create"
    /\ Len(props.children) = MaxChildren
    /\ rendered = view(create(props))

\* C2: once a hover-enter event has been processed, whatever the state
\* before it, the message was ShowDropdown, show is true and the view of
\* the component renders the child items in a list container.
HoverEnterShows ==
    lastOp.ev = "mouseover" =>
        /\ lastOp.msg = "ShowDropdown"
        /\ show = TRUE
        /\ RendersItems(view(Self), props.children)

HoverEnterShowsWitness ==
    /\ lastOp.ev = "mouseover"
    /\ lastOp.show = FALSE
    /\ show
    /\ Len(props.children) > 0

ChangePreservesShow ==
    [][ lastOp'.op = "change" =>
          /\ show' = show
          /\ (props'.main_content # props.main_content =>
                RendersHeader(rendered', props'.main_content)) ]_vars

ChangePreservesShowWitness ==
    /\ lastOp.op = "change"
    /\ lastOp.show = TRUE
    /\ show
    /\ lastOp.main # props.main_content
    /\ RendersHeader(rendered, props.main_content)

\* C5: after every processed message or props change the markup on screen
\* is the view of the current state: the child list is on screen iff show
\* is true and the header on screen is the current main_content; update
\* asks for a render on every message, change declines only when the new
\* props equal the stored ones.
RenderedIsCurrent ==
    /\ rendered = view(Self)
    /\ (ListContainers(rendered) # {}) <=> show
    /\ show => RendersItems(rendered, props.children)
    /\ RendersHeader(rendered, props.main_content)
    /\ lastOp.op = "update" => lastOp.ret
    /\ (lastOp.op = "change" /\ ~lastOp.ret) => ~lastOp.differ

RenderedIsCurrentWitness ==
    /\ lastOp.op = "change"
    /\ lastOp.differ
    /\ lastOp.ret
    /\ show
    /\ rendered = view(Self)

\* C6: a click on the main content of the component makes the dropdown
\* shown.
ClickOnMainContentShows ==
    (lastOp.ev = "click" /\ lastOp.target \in { <<1>>, <<1, 1>> }) => show

\* C7: in every state, shown or hidden, the markup on screen contains the
\* current main_content inside the main-content element.
MainContentAlwaysRendered ==
    /\ RendersHeader(rendered, props.main_content)
    /\ rendered.kids[1].class = <<"main-content">>
    /\ props.main_content \in Nodes(rendered)

MainContentAlwaysRenderedWitness ==
    /\ lastOp.op = "change"
    /\ lastOp.main # props.main_content
    /\ show
    /\ lastMsg = "ShowDropdown"

\* C8: two instances that differ only in active and receive the same
\* pointer events and props changes have the same show and render the same
\* child nodes at every step; their markup differs in the "active" class
\* only.
ActiveIsCosmetic ==
    /\ twin.show = show
    /\ twin.rendered.kids = rendered.kids
    /\ WithoutActive(twin.rendered) = WithoutActive(rendered)
    /\ twin.props = [props EXCEPT !.active = twin.props.active]

ActiveIsCosmeticWitness ==
    /\ twin.props.active # props.active
    /\ lastOp.op = "update"
    /\ show
    /\ twin.show
    /\ Len(props.children) > 0
    /\ twin.rendered # rendered
    /\ ("active" \in Classes(rendered)) # ("active" \in Classes(twin.rendered))

\* C9: in every reachable state show is a boolean, the props are a valid
\* Props value, every event is accepted, and one event leads to the shown
\* state and one to the hidden state.
NoFailurePath ==
    /\ show \in BOOLEAN
    /\ props \in Props
    /\ lastOp.op \in {"create", "update", "change"}
    /\ ENABLED MouseOver
    /\ ENABLED MouseLeave
    /\ ENABLED Click
    /\ \A p \in Props : ENABLED (NewProps(p) /\ UNCHANGED twin)
    /\ ENABLED (MouseOver /\ show')
    /\ ENABLED (MouseLeave /\ ~show')
    /\ ENABLED (Click /\ ~show')

NoFailurePathWitness ==
    /\ lastOp.op = "change"
    /\ show
    /\ lastOp.differ

DifferingFields(a, b) ==
    { f \in {"main_content", "class_name", "active", "id", "children"} : a[f] # b[f] }

\* C11: for every state and every new props value, change stores the new
\* props and returns true when they differ from the stored ones in some
\* field, and returns false and leaves props, show and the markup on screen
\* as they are when they are equal.
ChangeReplacesIffDifferent ==
    /\ [](\A p \in Props :
            LET r == change(Self, p)
            IN  IF DifferingFields(props, p) # {}
                THEN r.self.props = p /\ r.ret = TRUE
                ELSE r.ret = FALSE /\ r.self = Self)
    /\ [][ lastOp'.op = "change" =>
             IF lastOp'.differ
             THEN lastOp'.ret /\ DifferingFields(props, props') # {}
             ELSE /\ ~lastOp'.ret
                  /\ props' = props /\ show' = show /\ rendered' = rendered ]_vars

ChangeReplacesIffDifferentWitness ==
    /\ lastOp.op = "change"
    /\ lastOp.differ
    /\ lastOp.ret
    /\ lastOp.main = props.main_content
    /\ rendered = view(Self)

\* the markup holds one list container, after the main-content element,
\* whose child nodes are the children in their order, and holds the
\* children nowhere else
RendersChildrenOnce(html, children) ==
    /\ Cardinality(ListContainers(html)) = 1
    /\ \A i \in ListContainers(html) :
         /\ \E j \in 1..(i - 1) : html.kids[j].class = <<"main-content">>
         /\ html.kids[i].kids = children
         /\ \A k \in DOMAIN html.kids \ {i}, j \in DOMAIN children :
                children[j] \notin Nodes(html.kids[k])

\* C12: when show is true the view renders exactly one list container,
\* placed after the main-content element, holding all current children in
\* their original order, none missing or duplicated; when show is false it
\* renders no list container and none of the children.
ChildRendering ==
    /\ show => RendersChildrenOnce(view(Self), props.children)
    /\ show => RendersChildrenOnce(rendered, props.children)
    /\ ~show => RendersNoItem(view(Self), props.children)
    /\ ~show => RendersNoItem(rendered, props.children)
    /\ \A sh \in BOOLEAN, ch \in SeqsUpTo(Items, MaxChildren) :
         LET html == view([props |-> [props EXCEPT !.children = ch], show |-> sh])
         IN  IF sh THEN RendersChildrenOnce(html, ch) ELSE RendersNoItem(html, ch)

ChildRenderingWitness ==
    /\ show
    /\ lastOp.ev = "mouseover"
    /\ Len(props.children) = 2
    /\ props.children[1] # props.children[2]
    /\ rendered.kids[2].kids = props.children

\* C13: with two instances receiving arbitrary interleavings of pointer
\* events and props changes, an event or props change delivered to one
\* instance leaves the props, the show flag and the markup of the other as
\* they are, and each instance's show is decided by its own last pointer
\* message.
InstanceIsolation ==
    /\ [][ /\ sched'.inst = 1 => twin' = twin
           /\ sched'.inst = 2 =>
                (props' = props /\ show' = show /\ rendered' = rendered) ]_vars
    /\ [](show <=> (sched.msgs[1] = "ShowDropdown"))
    /\ [](twin.show <=> (sched.msgs[2] = "ShowDropdown"))

InstanceIsolationWitness ==
    /\ sched.inst = 2
    /\ lastOp.ev = "click"
    /\ lastOp.show = TRUE
    /\ show
    /\ ~twin.show
    /\ sched.msgs = <<"ShowDropdown", "HideDropdown">>

\* the root's classes and id are those of the view in both visibility
\* states, and the root carries "navbar-dropdown" and the custom class_name
RootStyling ==
    /\ "navbar-dropdown" \in Classes(rendered)
    /\ props.class_name # "" => props.class_name \in Classes(rendered)
    /\ rendered.id = props.id
    /\ \A sh \in BOOLEAN :
         /\ view([Self EXCEPT !.show = sh]).class = rendered.class
         /\ view([Self EXCEPT !.show = sh]).id = rendered.id

\* C14 as stated: in every state the root carries "navbar-dropdown" and the
\* custom class_name, and carries "active" iff props.active is true; the
\* classes and the id do not depend on show.
RootClassesAsStated ==
    /\ RootStyling
    /\ ("active" \in Classes(rendered)) <=> props.active

\* C14, amended: in every state the root carries "navbar-dropdown" and the
\* custom class_name, and carries "active" iff props.active is true or
\* class_name is itself "active"; the classes and the id do not depend on
\* show, and no pointer event changes them.
RootClasses ==
    /\ [](RootStyling)
    /\ [](("active" \in Classes(rendered)) <=>
            (props.active \/ props.class_name = "active"))
    /\ [][ lastOp'.op = "update" =>
             (rendered'.class = rendered.class /\ rendered'.id = rendered.id) ]_vars

RootClassesWitness ==
    /\ lastOp.op = "update"
    /\ lastOp.show # show
    /\ props.active
    /\ props.class_name = "class-test"
    /\ Classes(rendered) = { "navbar-dropdown", "active", "class-test" }
    /\ rendered.id = "id-test"

====
